---- MODULE Spec2Model ----
(***************************************************************************)
(* The exam session controller of the driving-test application             *)
(* (ExamInterface, src/unnamed/part_002) together with the view switch of  *)
(* the application shell (App, src/unnamed/part_001) and the rows it       *)
(* writes to the backend (exams, exam_responses).                          *)
(*                                                                         *)
(* ExamInterface is a React function component: every handler is a closure *)
(* over the state of the render that created it.  A handler that awaits a  *)
(* backend call goes on, after the await, with the values it captured when *)
(* it was invoked, while functional updates (setX(prev => ...)) act on the *)
(* latest state.  The model keeps each handler invocation that is awaiting *)
(* a backend call as an entry of `tasks`, with its captured closure.       *)
(* Continuations that follow an await of an already settled promise run as *)
(* microtasks, before any click, timer callback or network response, and   *)
(* are therefore part of the step that reaches them.                       *)
(***************************************************************************)
EXTENDS Integers, Sequences, FiniteSets, Bags, TLC

VARIABLES
    mode,                 \* prop `mode` of ExamInterface
    demo,                 \* VITE_SUPABASE_URL is the placeholder: mock data, no backend
    currentView,          \* App: 'dashboard' | 'exam' | 'results'
    currentExamId,        \* App: the id handed to onExamComplete
    questions,            \* useState: the loaded sequence
    currentQuestionIndex, \* useState: 0-based pointer
    selectedAnswers,      \* useState: question id -> answer id
    timeLeft,             \* useState: seconds left (mock_test)
    examId,               \* useState: '' until createExamSession returns
    loading,              \* useState
    showExplanation,      \* useState
    fetchPc,              \* fetchQuestions: "pending" | "done"
    createPc,             \* createExamSession: "pending" | "done"
    timer,                \* the interval of the timer effect and the closure it holds
    tasks,                \* bag of handler invocations awaiting a backend call
    exams,                \* backend: exams rows of this session, id -> row
    exam_responses,       \* backend: bag of exam_responses rows
    scored,               \* sequence of score computations performed by handleSubmitExam,
                          \* each with the closure it used, what started the submit
                          \* (origin) and selectedAnswers as it was at that moment (live)
    finalized,            \* sequence of exams updates issued (finalizeSession calls)
    completed,            \* sequence of onExamComplete calls (id, origin of the submit)
    toasts,               \* set of notifications shown
    clicks,               \* history: the number of clicks the learner has made
    showAddQuestion,      \* AdminDashboard useState: the modal is open to add a question
    editingQuestion,      \* AdminDashboard useState: the id of the question being edited
    formData,             \* QuestionModal useState: question_text and the answer options
    modalLoading,         \* QuestionModal useState `loading`: a save is running
    fetchQuestionPc,      \* QuestionModal fetchQuestion: "none" | "pending" | "done"
    saveTask,             \* the handleSave invocation awaiting a backend call
    dbQuestion,           \* backend: the questions row of the stored question
    dbAnswers,            \* backend: the answers rows of the stored question, in order
    formBlank,            \* history: formData comes from the blank form by edits only
    dbFromBlank           \* history: the last save that wrote had such a form

vars == <<mode, demo, currentView, currentExamId, questions, currentQuestionIndex,
          selectedAnswers, timeLeft, examId, loading, showExplanation, fetchPc,
          createPc, timer, tasks, exams, exam_responses, scored, finalized, completed,
          toasts, clicks, showAddQuestion, editingQuestion, formData, modalLoading,
          fetchQuestionPc, saveTask, dbQuestion, dbAnswers, formBlank, dbFromBlank>>

\* the state of the question editor (AdminDashboard and its QuestionModal)
editorVars == <<showAddQuestion, editingQuestion, formData, modalLoading,
                fetchQuestionPc, saveTask, dbQuestion, dbAnswers, formBlank, dbFromBlank>>

(***************************************************************************)
(* Bounds of the model.                                                    *)
(***************************************************************************)
\* length of the mock-test countdown in ticks; 20 * 60 in the source
CountdownSeconds == 2
\* clicks the learner makes in the session
MaxClicks == 4

(***************************************************************************)
(* Program constants.                                                      *)
(***************************************************************************)
PracticeLimit == 10
MockTestLimit == 20
PassMark == 70
\* Math.round of 0/0: not a number.  No score of a session equals it.
NaN == -1
\* `undefined` where an answer id is expected (correctAnswer?.id)
Undefined == 0
\* the id the backend gives the exams row
NewExamId == "e1"

Modes == {"practice", "mock_test", "learning"}

Min(S) == CHOOSE x \in S : \A y \in S : x <= y

(***************************************************************************)
(* The question bank (the rows of questions with their answers, or the     *)
(* mock data): two questions, the first with a right and a wrong answer,   *)
(* the second with a single, right answer.                                 *)
(***************************************************************************)
Bank ==
    << [id |-> 1, answers |-> << [id |-> 11, is_correct |-> TRUE],
                                 [id |-> 12, is_correct |-> FALSE] >>],
       [id |-> 2, answers |-> << [id |-> 21, is_correct |-> TRUE] >>] >>

\* query.limit(20) / query.limit(10), slice(0, Math.min(limit, length))
Limit(m) == IF m = "mock_test" THEN MockTestLimit ELSE PracticeLimit

\* mutant: the whole pool, without the limit
LimitedUncut(m, pool) == pool

Limited(m, pool) == SubSeq(pool, 1, IF Len(pool) < Limit(m) THEN Len(pool) ELSE Limit(m))

Orders(s) ==
    {p \in [DOMAIN s -> DOMAIN s] : \A i, j \in DOMAIN s : p[i] = p[j] => i = j}

\* sort(() => Math.random() - 0.5): some order of the same elements
Shuffles(s) == {[i \in DOMAIN s |-> s[p[i]]] : p \in Orders(s)}

\* every question with its answers shuffled, then the questions shuffled
ShuffledQuestions(data) ==
    UNION {Shuffles(qs) :
            qs \in {f \in [DOMAIN data -> UNION {{[id |-> data[i].id, answers |-> a] :
                                                     a \in Shuffles(data[i].answers)} :
                                                   i \in DOMAIN data}] :
                      \A i \in DOMAIN data : f[i].id = data[i].id}}

(***************************************************************************)
(* Closures and the values a render derives from its state.                *)
(***************************************************************************)
Closure ==
    [questions |-> questions, currentQuestionIndex |-> currentQuestionIndex,
     selectedAnswers |-> selectedAnswers, examId |-> examId]

HasCurrent(c) == (c.currentQuestionIndex + 1) \in DOMAIN c.questions

\* questions[currentQuestionIndex]
CurrentQuestion(c) == c.questions[c.currentQuestionIndex + 1]

\* selectedAnswers[currentQuestion?.id] is defined
HasSelected(c) == HasCurrent(c) /\ CurrentQuestion(c).id \in DOMAIN c.selectedAnswers

SelectedAnswerId(c) == c.selectedAnswers[CurrentQuestion(c).id]

\* mutant: the first answer is taken for the right one (answers[0]?.id)
CorrectAnswerFirst(q) ==
    IF q.answers = <<>> THEN Undefined ELSE q.answers[1].id

\* question.answers.find(a => a.is_correct)?.id
CorrectAnswerId(q) ==
    LET flagged == {i \in DOMAIN q.answers : q.answers[i].is_correct}
    IN  IF flagged = {} THEN Undefined ELSE q.answers[Min(flagged)].id

Mounted == currentView = "exam"

(***************************************************************************)
(* Scorer: handleSubmitExam, "Calculate score".                            *)
(***************************************************************************)
\* questions.find(q => q.id === questionId): the first question with that id
FindQuestion(qs, questionId) ==
    LET at == {i \in DOMAIN qs : qs[i].id = questionId}
    IN  IF at = {} THEN {} ELSE {qs[Min(at)]}

\* mutant: a question without a flagged answer counts as answered rightly
CorrectCountLenient(c) ==
    Cardinality({questionId \in DOMAIN c.selectedAnswers :
                   \E question \in FindQuestion(c.questions, questionId) :
                       \/ c.selectedAnswers[questionId] = CorrectAnswerId(question)
                       \/ CorrectAnswerId(question) = Undefined})

\* responses.forEach(...): the keys of selectedAnswers whose answer is the
\* first flagged answer of the question found for the key
CorrectCount(c) ==
    Cardinality({questionId \in DOMAIN c.selectedAnswers :
                   \E question \in FindQuestion(c.questions, questionId) :
                       c.selectedAnswers[questionId] = CorrectAnswerId(question)})

\* mutant: Math.floor in place of Math.round
RoundPercentFloor(correctCount, length) ==
    IF length = 0 THEN NaN ELSE (100 * correctCount) \div length

\* Math.round((correctCount / length) * 100): nearest integer, halves up;
\* 0 / 0 is not a number
RoundPercent(correctCount, length) ==
    IF length = 0 THEN NaN ELSE (200 * correctCount + length) \div (2 * length)

Score(c) == RoundPercent(CorrectCount(c), Len(c.questions))

\* mutant: score > 70
PassedStrict(score) == score # NaN /\ score > PassMark

\* score >= 70; a comparison with NaN is false
Passed(score) == score # NaN /\ score >= PassMark

(***************************************************************************)
(* saveResponse: the row it inserts.                                       *)
(***************************************************************************)
ResponseRow(c) ==
    [exam_id |-> c.examId,
     question_id |-> CurrentQuestion(c).id,
     chosen_answer_id |-> SelectedAnswerId(c),
     is_correct |-> (SelectedAnswerId(c) = CorrectAnswerId(CurrentQuestion(c)))]

\* saveResponse reaches its insert: an answer is chosen and the backend is live
SaveIssuesInsert(c) == HasSelected(c) /\ ~demo

Task(pc, c, origin, live) == [pc |-> pc, c |-> c, origin |-> origin, live |-> live]

InitialClosure ==
    [questions |-> <<>>, currentQuestionIndex |-> 0, selectedAnswers |-> <<>>, examId |-> ""]

NoTimer == [active |-> FALSE, c |-> InitialClosure]

(***************************************************************************)
(* The question editor (AdminDashboard and QuestionModal,                  *)
(* src/unnamed/part_003): its data.                                        *)
(***************************************************************************)
\* editingQuestion / questionId when a question is added
Null == "null"

\* the stored question the Edit button opens
ExistingId == "q1"

\* the texts typed into the form: empty, blank, non-empty
Texts == {"", " ", "a"}

\* String.prototype.trim on these texts
Trim(text) == IF text = " " THEN "" ELSE text

\* useState of QuestionModal: four empty options, none flagged
BlankForm ==
    [question_text |-> "",
     answers |-> [i \in 1..4 |-> [answer_text |-> "", is_correct |-> FALSE]]]

ExistingQuestion == [question_text |-> "a"]

ExistingAnswers ==
    [i \in 1..4 |-> [answer_text |-> "a", is_correct |-> (i = 1)]]

NoSave == [pc |-> "idle", formData |-> BlankForm, before |-> <<>>, fromBlank |-> FALSE]

\* no modal is open and the stored question is as it was created
EditorIdle ==
    /\ showAddQuestion = FALSE
    /\ editingQuestion = Null
    /\ formData = BlankForm
    /\ modalLoading = FALSE
    /\ fetchQuestionPc = "none"
    /\ saveTask = NoSave
    /\ dbQuestion = ExistingQuestion
    /\ dbAnswers = ExistingAnswers
    /\ formBlank = TRUE
    /\ dbFromBlank = FALSE

(***************************************************************************)
(* Initial state: ExamInterface has just been mounted by App               *)
(* (handleStartExam) and its mount effects have run.  With the placeholder *)
(* backend URL fetchQuestions and createExamSession finish synchronously   *)
(* inside the mount effect; the timer effect still holds the closure of    *)
(* the first render.                                                       *)
(***************************************************************************)
Init ==
    /\ mode \in Modes
    /\ demo \in BOOLEAN
    /\ currentView = "exam"
    /\ currentExamId = ""
    /\ questions \in (IF demo THEN ShuffledQuestions(Limited(mode, Bank)) ELSE {<<>>})
    /\ currentQuestionIndex = 0
    /\ selectedAnswers = <<>>
    /\ timeLeft = IF mode = "mock_test" THEN CountdownSeconds ELSE 0
    /\ examId = IF demo THEN "mock-exam" ELSE ""
    /\ loading = ~demo
    /\ showExplanation = FALSE
    /\ fetchPc = IF demo THEN "done" ELSE "pending"
    /\ createPc = IF demo THEN "done" ELSE "pending"
    /\ timer = [active |-> (mode = "mock_test" /\ CountdownSeconds > 0), c |-> InitialClosure]
    /\ tasks = EmptyBag
    /\ exams = <<>>
    /\ exam_responses = EmptyBag
    /\ scored = <<>>
    /\ finalized = <<>>
    /\ completed = <<>>
    /\ toasts = {}
    /\ clicks = 0
    /\ EditorIdle

\* the timer effect's cleanup runs when ExamInterface is unmounted; a step that
\* does not change timeLeft leaves the interval and its closure as they are
TimerKept == timer' = IF currentView' = "exam" THEN timer ELSE NoTimer

(***************************************************************************)
(* App.handleExamComplete                                                  *)
(***************************************************************************)
OnExamComplete(id, origin) ==
    /\ completed' = Append(completed, [id |-> id, origin |-> origin])
    /\ currentExamId' = id
    /\ currentView' = "results"

(***************************************************************************)
(* handleSubmitExam from "Calculate score" on: the score, then (live       *)
(* backend) the exams update is issued and awaited, or (placeholder        *)
(* backend) the toast and onExamComplete follow at once.  T is the bag of  *)
(* the other invocations in flight.                                        *)
(***************************************************************************)
ComputeAndFinalize(c, origin, live, T) ==
    /\ scored' = Append(scored, [score |-> Score(c), passed |-> Passed(Score(c)),
                                 origin |-> origin, c |-> c, live |-> live])
    /\ IF demo
       THEN /\ toasts' = toasts \cup {"Exam completed!"}
            /\ OnExamComplete(c.examId, origin)
            /\ tasks' = T
            /\ UNCHANGED finalized
       ELSE /\ tasks' = T (+) SetToBag({Task("submit_update", c, origin, live)})
            /\ finalized' = Append(finalized, [id |-> c.examId, score |-> Score(c),
                                               passed |-> Passed(Score(c)),
                                               origin |-> origin])
            /\ UNCHANGED <<toasts, completed, currentExamId, currentView>>

(***************************************************************************)
(* handleSubmitExam up to its first backend call.  saveResponse reads      *)
(* currentQuestion.id: with no current question that is a TypeError, which *)
(* the catch of handleSubmitExam turns into the 'Failed to submit exam'    *)
(* toast.                                                                  *)
(***************************************************************************)
HandleSubmitExam(c, origin, T) ==
    IF mode # "learning" /\ ~HasCurrent(c)
    THEN /\ toasts' = toasts \cup {"Failed to submit exam"}
         /\ tasks' = T
         /\ UNCHANGED <<scored, finalized, completed, currentExamId, currentView>>
    ELSE IF mode # "learning" /\ SaveIssuesInsert(c)
    THEN /\ tasks' = T (+) SetToBag({Task("submit_save", c, origin, selectedAnswers)})
         /\ UNCHANGED <<toasts, scored, finalized, completed, currentExamId, currentView>>
    ELSE ComputeAndFinalize(c, origin, selectedAnswers, T)

\* mutant: the pointer move does not reset the explanation flag
AfterSaveOfNextKeepingFlag(c, T) ==
    IF c.currentQuestionIndex < Len(c.questions) - 1
    THEN /\ currentQuestionIndex' = IF Mounted THEN currentQuestionIndex + 1
                                    ELSE currentQuestionIndex
         /\ tasks' = T
         /\ UNCHANGED <<showExplanation, toasts, scored, finalized, completed,
                        currentExamId, currentView>>
    ELSE /\ HandleSubmitExam(c, "manual", T)
         /\ UNCHANGED <<currentQuestionIndex, showExplanation>>

(***************************************************************************)
(* handleNextQuestion after its saveResponse: move the pointer (functional *)
(* update on the latest pointer, a no-op once unmounted) or submit; the    *)
(* test uses the pointer and the questions of the closure.                 *)
(***************************************************************************)
AfterSaveOfNext(c, T) ==
    IF c.currentQuestionIndex < Len(c.questions) - 1
    THEN /\ currentQuestionIndex' = IF Mounted THEN currentQuestionIndex + 1
                                    ELSE currentQuestionIndex
         /\ showExplanation' = IF Mounted THEN FALSE ELSE showExplanation
         /\ tasks' = T
         /\ UNCHANGED <<toasts, scored, finalized, completed, currentExamId, currentView>>
    ELSE /\ HandleSubmitExam(c, "manual", T)
         /\ UNCHANGED <<currentQuestionIndex, showExplanation>>

\* the exam screen (not the loading spinner) is on display
Rendered == Mounted /\ ~loading

\* mutant: the new map is built without the spread of the previous one
HandleAnswerSelectReplacing(answerId) ==
    /\ Rendered
    /\ HasCurrent(Closure)
    /\ \E i \in DOMAIN CurrentQuestion(Closure).answers :
           CurrentQuestion(Closure).answers[i].id = answerId
    /\ ~(mode = "learning" /\ showExplanation)
    /\ selectedAnswers' = (CurrentQuestion(Closure).id :> answerId)
    /\ showExplanation' = IF mode = "learning" THEN TRUE ELSE showExplanation
    /\ clicks < MaxClicks
    /\ clicks' = clicks + 1
    /\ UNCHANGED editorVars
    /\ UNCHANGED <<mode, demo, currentView, currentExamId, questions, currentQuestionIndex,
                   timeLeft, examId, loading, fetchPc, createPc, timer, tasks, exams,
                   exam_responses, scored, finalized, completed, toasts>>

(***************************************************************************)
(* handleAnswerSelect, from an answer button of the current question; the  *)
(* buttons are disabled while the explanation is shown (learning).         *)
(***************************************************************************)
HandleAnswerSelect(answerId) ==
    /\ Rendered
    /\ HasCurrent(Closure)
    /\ \E i \in DOMAIN CurrentQuestion(Closure).answers :
           CurrentQuestion(Closure).answers[i].id = answerId
    /\ ~(mode = "learning" /\ showExplanation)
    /\ selectedAnswers' =
           [k \in DOMAIN selectedAnswers \cup {CurrentQuestion(Closure).id} |->
               IF k = CurrentQuestion(Closure).id THEN answerId ELSE selectedAnswers[k]]
    /\ showExplanation' = IF mode = "learning" THEN TRUE ELSE showExplanation
    /\ clicks < MaxClicks
    /\ clicks' = clicks + 1
    /\ UNCHANGED editorVars
    /\ UNCHANGED <<mode, demo, currentView, currentExamId, questions, currentQuestionIndex,
                   timeLeft, examId, loading, fetchPc, createPc, timer, tasks, exams,
                   exam_responses, scored, finalized, completed, toasts>>

\* mutant: saveResponse is awaited in learning mode as well
HandleNextQuestionSavingAlways ==
    /\ Rendered
    /\ HasSelected(Closure) \/ mode = "learning"
    /\ IF SaveIssuesInsert(Closure)
       THEN /\ tasks' = tasks (+) SetToBag({Task("next_save", Closure, "manual", <<>>)})
            /\ UNCHANGED <<currentQuestionIndex, showExplanation, toasts, scored,
                           finalized, completed, currentExamId, currentView>>
       ELSE AfterSaveOfNext(Closure, tasks)
    /\ clicks < MaxClicks
    /\ clicks' = clicks + 1
    /\ UNCHANGED editorVars
    /\ TimerKept
    /\ UNCHANGED <<mode, demo, questions, selectedAnswers, timeLeft, examId, loading,
                   fetchPc, createPc, exams, exam_responses>>

(***************************************************************************)
(* handleNextQuestion, from the Next/Finish button (disabled when the      *)
(* current question has no chosen answer, except in learning mode).  With  *)
(* a live backend and a chosen answer saveResponse issues its insert and   *)
(* the handler awaits it; otherwise the handler runs to its end.           *)
(***************************************************************************)
HandleNextQuestion ==
    /\ Rendered
    /\ HasSelected(Closure) \/ mode = "learning"
    /\ IF mode # "learning" /\ SaveIssuesInsert(Closure)
       THEN /\ tasks' = tasks (+) SetToBag({Task("next_save", Closure, "manual", <<>>)})
            /\ UNCHANGED <<currentQuestionIndex, showExplanation, toasts, scored,
                           finalized, completed, currentExamId, currentView>>
       ELSE AfterSaveOfNext(Closure, tasks)
    /\ clicks < MaxClicks
    /\ clicks' = clicks + 1
    /\ UNCHANGED editorVars
    /\ TimerKept
    /\ UNCHANGED <<mode, demo, questions, selectedAnswers, timeLeft, examId, loading,
                   fetchPc, createPc, exams, exam_responses>>

\* mutant: the pointer is moved back without the test currentQuestionIndex > 0
HandlePreviousQuestionUnguarded ==
    /\ Rendered
    /\ currentQuestionIndex' = currentQuestionIndex - 1
    /\ showExplanation' = FALSE
    /\ clicks < MaxClicks
    /\ clicks' = clicks + 1
    /\ UNCHANGED editorVars
    /\ UNCHANGED <<mode, demo, currentView, currentExamId, questions, selectedAnswers,
                   timeLeft, examId, loading, fetchPc, createPc, timer, tasks, exams,
                   exam_responses, scored, finalized, completed, toasts>>

(***************************************************************************)
(* handlePreviousQuestion.  The Previous button is disabled at the first   *)
(* question; the handler has the same test, so it is modelled as callable  *)
(* there and doing nothing.                                                *)
(***************************************************************************)
HandlePreviousQuestion ==
    /\ Rendered
    /\ IF currentQuestionIndex > 0
       THEN /\ currentQuestionIndex' = currentQuestionIndex - 1
            /\ showExplanation' = FALSE
       ELSE UNCHANGED <<currentQuestionIndex, showExplanation>>
    /\ clicks < MaxClicks
    /\ clicks' = clicks + 1
    /\ UNCHANGED editorVars
    /\ UNCHANGED <<mode, demo, currentView, currentExamId, questions, selectedAnswers,
                   timeLeft, examId, loading, fetchPc, createPc, timer, tasks, exams,
                   exam_responses, scored, finalized, completed, toasts>>

(***************************************************************************)
(* The Exit button: App.handleBackToDashboard unmounts ExamInterface.      *)
(***************************************************************************)
OnExit ==
    /\ Rendered
    /\ currentView' = "dashboard"
    /\ clicks < MaxClicks
    /\ clicks' = clicks + 1
    /\ UNCHANGED editorVars
    /\ TimerKept
    /\ UNCHANGED <<mode, demo, currentExamId, questions, currentQuestionIndex,
                   selectedAnswers, timeLeft, examId, loading, showExplanation, fetchPc,
                   createPc, tasks, exams, exam_responses, scored, finalized, completed,
                   toasts>>

(***************************************************************************)
(* One firing of the interval of the timer effect: the updater of          *)
(* setTimeLeft calls the handleSubmitExam of the effect's closure when the *)
(* latest timeLeft is 1 or less.  The change of timeLeft re-runs the       *)
(* effect, which sets a new interval (closure of the new render) while     *)
(* timeLeft > 0.                                                           *)
(***************************************************************************)
Tick ==
    /\ timer.active
    /\ IF timeLeft <= 1
       THEN /\ HandleSubmitExam(timer.c, "timer", tasks)
            /\ timeLeft' = 0
       ELSE /\ timeLeft' = timeLeft - 1
            /\ UNCHANGED <<tasks, toasts, scored, finalized, completed, currentExamId,
                           currentView>>
    /\ timer' = IF currentView' = "exam" /\ mode = "mock_test" /\ timeLeft' > 0
                THEN [active |-> TRUE, c |-> Closure]
                ELSE NoTimer
    /\ UNCHANGED clicks
    /\ UNCHANGED editorVars
    /\ UNCHANGED <<mode, demo, questions, currentQuestionIndex, selectedAnswers, examId,
                   loading, showExplanation, fetchPc, createPc, exams, exam_responses>>

(***************************************************************************)
(* fetchQuestions (live backend): the query returns.                       *)
(***************************************************************************)
FetchQuestionsReturns ==
    /\ fetchPc = "pending"
    /\ fetchPc' = "done"
    /\ loading' = FALSE
    /\ \/ /\ questions' \in ShuffledQuestions(Limited(mode, Bank))
          /\ UNCHANGED toasts
       \/ /\ toasts' = toasts \cup {"Failed to load questions"}
          /\ UNCHANGED questions
    /\ UNCHANGED clicks
    /\ UNCHANGED editorVars
    /\ UNCHANGED <<mode, demo, currentView, currentExamId, currentQuestionIndex,
                   selectedAnswers, timeLeft, examId, showExplanation, createPc, timer,
                   tasks, exams, exam_responses, scored, finalized, completed>>

(***************************************************************************)
(* createExamSession (live backend): the insert into exams returns.        *)
(***************************************************************************)
CreateExamSessionReturns ==
    /\ createPc = "pending"
    /\ createPc' = "done"
    /\ \/ /\ exams' = (NewExamId :> [mode |-> mode,
                                     total_questions |-> Limit(mode),
                                     score |-> 0, passed |-> FALSE, ended |-> FALSE])
          /\ examId' = IF Mounted THEN NewExamId ELSE examId
          /\ UNCHANGED toasts
       \/ /\ toasts' = toasts \cup {"Failed to start exam"}
          /\ UNCHANGED <<exams, examId>>
    /\ UNCHANGED clicks
    /\ UNCHANGED editorVars
    /\ UNCHANGED <<mode, demo, currentView, currentExamId, questions, currentQuestionIndex,
                   selectedAnswers, timeLeft, loading, showExplanation, fetchPc, timer,
                   tasks, exam_responses, scored, finalized, completed>>

\* the backend stores an exam_responses row only for an existing exams row
\* (exam_id uuid NOT NULL REFERENCES exams(id)) and only if the call succeeds
InsertResponse(t, ok) ==
    exam_responses' = IF ok /\ t.c.examId \in DOMAIN exams
                      THEN exam_responses (+) SetToBag({ResponseRow(t.c)})
                      ELSE exam_responses

\* mutant: after a failed insert the handler stops
NextSaveReturnsBlocking(t, ok) ==
    /\ t \in BagToSet(tasks)
    /\ t.pc = "next_save"
    /\ InsertResponse(t, ok)
    /\ IF ok
       THEN AfterSaveOfNext(t.c, tasks (-) SetToBag({t}))
       ELSE /\ tasks' = tasks (-) SetToBag({t})
            /\ UNCHANGED <<currentQuestionIndex, showExplanation, toasts, scored,
                           finalized, completed, currentExamId, currentView>>
    /\ UNCHANGED clicks
    /\ UNCHANGED editorVars
    /\ TimerKept
    /\ UNCHANGED <<mode, demo, questions, selectedAnswers, timeLeft, examId, loading,
                   fetchPc, createPc, exams>>

(***************************************************************************)
(* The insert of the saveResponse awaited by handleNextQuestion returns    *)
(* (stored, or failed: the error is only logged) and the handler goes on.  *)
(***************************************************************************)
NextSaveReturns(t, ok) ==
    /\ t \in BagToSet(tasks)
    /\ t.pc = "next_save"
    /\ InsertResponse(t, ok)
    /\ AfterSaveOfNext(t.c, tasks (-) SetToBag({t}))
    /\ UNCHANGED clicks
    /\ UNCHANGED editorVars
    /\ TimerKept
    /\ UNCHANGED <<mode, demo, questions, selectedAnswers, timeLeft, examId, loading,
                   fetchPc, createPc, exams>>

(***************************************************************************)
(* The insert of the saveResponse awaited by handleSubmitExam returns.     *)
(***************************************************************************)
SubmitSaveReturns(t, ok) ==
    /\ t \in BagToSet(tasks)
    /\ t.pc = "submit_save"
    /\ InsertResponse(t, ok)
    /\ ComputeAndFinalize(t.c, t.origin, t.live, tasks (-) SetToBag({t}))
    /\ UNCHANGED clicks
    /\ UNCHANGED editorVars
    /\ TimerKept
    /\ UNCHANGED <<mode, demo, questions, currentQuestionIndex, selectedAnswers, timeLeft,
                   examId, loading, showExplanation, fetchPc, createPc, exams>>

(***************************************************************************)
(* The exams update awaited by handleSubmitExam returns: the row of the    *)
(* closure's examId, if there is one and the call succeeds, gets end_time, *)
(* score and passed; the result of the call is not looked at.  Then the    *)
(* toast and onExamComplete.                                               *)
(***************************************************************************)
FinalizeReturns(t, ok) ==
    /\ t \in BagToSet(tasks)
    /\ t.pc = "submit_update"
    /\ exams' = IF ok /\ t.c.examId \in DOMAIN exams
                THEN [exams EXCEPT ![t.c.examId] =
                         [@ EXCEPT !.score = Score(t.c), !.passed = Passed(Score(t.c)),
                                   !.ended = TRUE]]
                ELSE exams
    /\ toasts' = toasts \cup {"Exam completed!"}
    /\ OnExamComplete(t.c.examId, t.origin)
    /\ tasks' = tasks (-) SetToBag({t})
    /\ UNCHANGED clicks
    /\ UNCHANGED editorVars
    /\ TimerKept
    /\ UNCHANGED <<mode, demo, questions, currentQuestionIndex, selectedAnswers, timeLeft,
                   examId, loading, showExplanation, fetchPc, createPc, exam_responses,
                   scored, finalized>>

AnswerIds == UNION {{Bank[i].answers[j].id : j \in DOMAIN Bank[i].answers} : i \in DOMAIN Bank}

Next ==
    \/ \E answerId \in AnswerIds : HandleAnswerSelect(answerId)
    \/ HandleNextQuestion
    \/ HandlePreviousQuestion
    \/ OnExit
    \/ Tick
    \/ FetchQuestionsReturns
    \/ CreateExamSessionReturns
    \/ \E t \in BagToSet(tasks), ok \in BOOLEAN : NextSaveReturns(t, ok)
    \/ \E t \in BagToSet(tasks), ok \in BOOLEAN : SubmitSaveReturns(t, ok)
    \/ \E t \in BagToSet(tasks), ok \in BOOLEAN : FinalizeReturns(t, ok)

Spec == Init /\ [][Next]_vars

\* a backend call that is awaited returns
BackendReturns ==
    \/ FetchQuestionsReturns
    \/ CreateExamSessionReturns
    \/ \E t \in BagToSet(tasks), ok \in BOOLEAN : NextSaveReturns(t, ok)
    \/ \E t \in BagToSet(tasks), ok \in BOOLEAN : SubmitSaveReturns(t, ok)
    \/ \E t \in BagToSet(tasks), ok \in BOOLEAN : FinalizeReturns(t, ok)

\* the interval keeps firing while it is set, and every backend call returns;
\* the learner is free to stop clicking
FairSpec == Spec /\ WF_vars(Tick) /\ WF_vars(BackendReturns)

(***************************************************************************)
(* Scoring sessions: the sessions in which the scorer is checked over the  *)
(* sequence lengths the loader can produce (up to the limit of the mode).  *)
(* The bank holds n questions of two answers each, the flagged one first   *)
(* for odd ids and second for even ids; the learner has answered the first *)
(* r questions rightly and the next w wrongly.  A practice session stands  *)
(* at its last question with every question answered (Next is enabled only *)
(* on an answered question), a learning session at its last question, a    *)
(* mock test at its first unanswered question with one second left.        *)
(***************************************************************************)
ScoreBank(n) ==
    [q \in 1..n |->
        [id |-> q,
         answers |-> [k \in 1..2 |-> [id |-> 10 * q + k,
                                      is_correct |-> (k = 2 - (q % 2))]]]]

ScoreAnswers(r, w) ==
    [q \in 1..(r + w) |-> IF q <= r THEN 10 * q + (2 - (q % 2))
                          ELSE 10 * q + (1 + (q % 2))]

InitScore ==
    /\ mode \in Modes
    /\ demo \in BOOLEAN
    /\ currentView = "exam"
    /\ currentExamId = ""
    /\ \E n \in 1..Limit(mode) : \E r \in 0..n : \E w \in 0..(n - r) :
          /\ mode = "practice" => r + w = n
          /\ questions = ScoreBank(n)
          /\ selectedAnswers = ScoreAnswers(r, w)
          /\ currentQuestionIndex = IF mode = "mock_test" /\ r + w < n THEN r + w ELSE n - 1
    /\ timeLeft = IF mode = "mock_test" THEN 1 ELSE 0
    /\ examId = IF demo THEN "mock-exam" ELSE NewExamId
    /\ loading = FALSE
    /\ showExplanation = FALSE
    /\ fetchPc = "done"
    /\ createPc = "done"
    /\ timer = IF mode = "mock_test" THEN [active |-> TRUE, c |-> Closure] ELSE NoTimer
    /\ tasks = EmptyBag
    /\ exams = IF demo THEN <<>>
               ELSE (NewExamId :> [mode |-> mode, total_questions |-> Limit(mode),
                                   score |-> 0, passed |-> FALSE, ended |-> FALSE])
    /\ exam_responses = EmptyBag
    /\ scored = <<>>
    /\ finalized = <<>>
    /\ completed = <<>>
    /\ toasts = {}
    /\ clicks = MaxClicks - 1
    /\ EditorIdle

NextScore ==
    \/ HandleNextQuestion
    \/ Tick
    \/ \E t \in BagToSet(tasks), ok \in BOOLEAN : NextSaveReturns(t, ok)
    \/ \E t \in BagToSet(tasks), ok \in BOOLEAN : SubmitSaveReturns(t, ok)
    \/ \E t \in BagToSet(tasks), ok \in BOOLEAN : FinalizeReturns(t, ok)

SpecScore == InitScore /\ [][NextScore]_vars

(***************************************************************************)
(* Sessions over a bank with unflagged questions: one question with a      *)
(* flagged answer, one with two answers of which none is flagged, one with *)
(* no answers at all.  The session has just been loaded (both mount calls  *)
(* have returned, no tick yet).                                            *)
(***************************************************************************)
UnflaggedBank ==
    << [id |-> 1, answers |-> << [id |-> 11, is_correct |-> TRUE],
                                 [id |-> 12, is_correct |-> FALSE] >>],
       [id |-> 2, answers |-> << [id |-> 21, is_correct |-> FALSE],
                                 [id |-> 22, is_correct |-> FALSE] >>],
       [id |-> 3, answers |-> << >>] >>

UnflaggedAnswerIds ==
    UNION {{UnflaggedBank[i].answers[j].id : j \in DOMAIN UnflaggedBank[i].answers} :
             i \in DOMAIN UnflaggedBank}

InitUnflagged ==
    /\ mode \in Modes
    /\ demo \in BOOLEAN
    /\ currentView = "exam"
    /\ currentExamId = ""
    /\ questions \in ShuffledQuestions(Limited(mode, UnflaggedBank))
    /\ currentQuestionIndex = 0
    /\ selectedAnswers = <<>>
    /\ timeLeft = IF mode = "mock_test" THEN CountdownSeconds ELSE 0
    /\ examId = IF demo THEN "mock-exam" ELSE NewExamId
    /\ loading = FALSE
    /\ showExplanation = FALSE
    /\ fetchPc = "done"
    /\ createPc = "done"
    /\ timer = [active |-> (mode = "mock_test" /\ CountdownSeconds > 0), c |-> InitialClosure]
    /\ tasks = EmptyBag
    /\ exams = IF demo THEN <<>>
               ELSE (NewExamId :> [mode |-> mode, total_questions |-> Limit(mode),
                                   score |-> 0, passed |-> FALSE, ended |-> FALSE])
    /\ exam_responses = EmptyBag
    /\ scored = <<>>
    /\ finalized = <<>>
    /\ completed = <<>>
    /\ toasts = {}
    /\ clicks = 0
    /\ EditorIdle

NextUnflagged ==
    \/ \E answerId \in UnflaggedAnswerIds : HandleAnswerSelect(answerId)
    \/ HandleNextQuestion
    \/ HandlePreviousQuestion
    \/ OnExit
    \/ Tick
    \/ \E t \in BagToSet(tasks), ok \in BOOLEAN : NextSaveReturns(t, ok)
    \/ \E t \in BagToSet(tasks), ok \in BOOLEAN : SubmitSaveReturns(t, ok)
    \/ \E t \in BagToSet(tasks), ok \in BOOLEAN : FinalizeReturns(t, ok)

SpecUnflagged == InitUnflagged /\ [][NextUnflagged]_vars

(***************************************************************************)
(* Sessions over a bank with a question that has two flagged answers (the  *)
(* answers table has no constraint on is_correct, and a save of the        *)
(* question editor can leave two flagged rows).  The session has just been *)
(* loaded (both mount calls have returned, no tick yet).                   *)
(***************************************************************************)
TwoFlaggedBank ==
    << [id |-> 1, answers |-> << [id |-> 11, is_correct |-> TRUE],
                                 [id |-> 12, is_correct |-> TRUE] >>],
       [id |-> 2, answers |-> << [id |-> 21, is_correct |-> TRUE],
                                 [id |-> 22, is_correct |-> FALSE] >>] >>

TwoFlaggedAnswerIds ==
    UNION {{TwoFlaggedBank[i].answers[j].id : j \in DOMAIN TwoFlaggedBank[i].answers} :
             i \in DOMAIN TwoFlaggedBank}

InitTwoFlagged ==
    /\ mode \in Modes
    /\ demo \in BOOLEAN
    /\ currentView = "exam"
    /\ currentExamId = ""
    /\ questions \in ShuffledQuestions(Limited(mode, TwoFlaggedBank))
    /\ currentQuestionIndex = 0
    /\ selectedAnswers = <<>>
    /\ timeLeft = IF mode = "mock_test" THEN CountdownSeconds ELSE 0
    /\ examId = IF demo THEN "mock-exam" ELSE NewExamId
    /\ loading = FALSE
    /\ showExplanation = FALSE
    /\ fetchPc = "done"
    /\ createPc = "done"
    /\ timer = [active |-> (mode = "mock_test" /\ CountdownSeconds > 0), c |-> InitialClosure]
    /\ tasks = EmptyBag
    /\ exams = IF demo THEN <<>>
               ELSE (NewExamId :> [mode |-> mode, total_questions |-> Limit(mode),
                                   score |-> 0, passed |-> FALSE, ended |-> FALSE])
    /\ exam_responses = EmptyBag
    /\ scored = <<>>
    /\ finalized = <<>>
    /\ completed = <<>>
    /\ toasts = {}
    /\ clicks = 0
    /\ EditorIdle

NextTwoFlagged ==
    \/ \E answerId \in TwoFlaggedAnswerIds : HandleAnswerSelect(answerId)
    \/ HandleNextQuestion
    \/ HandlePreviousQuestion
    \/ OnExit
    \/ Tick
    \/ \E t \in BagToSet(tasks), ok \in BOOLEAN : NextSaveReturns(t, ok)
    \/ \E t \in BagToSet(tasks), ok \in BOOLEAN : SubmitSaveReturns(t, ok)
    \/ \E t \in BagToSet(tasks), ok \in BOOLEAN : FinalizeReturns(t, ok)

SpecTwoFlagged == InitTwoFlagged /\ [][NextTwoFlagged]_vars

(***************************************************************************)
(* Loading sessions: the loader over pools of the sizes around the limits  *)
(* of the modes.  The pool of n questions is ScoreBank(n); of the orders   *)
(* the shuffle can produce two are taken: the order of the pool, and the   *)
(* reverse order with the answers of every question reversed.  The session *)
(* starts at the mount of ExamInterface, before its mount effect; with the *)
(* placeholder backend URL the effect runs fetchQuestions and              *)
(* createExamSession to their ends before anything else can happen.        *)
(***************************************************************************)
PoolSizes == {9, 10, 20, 21}

Reverse(s) == [i \in DOMAIN s |-> s[Len(s) + 1 - i]]

SampleShuffledQuestions(data) ==
    {data, Reverse([i \in DOMAIN data |-> [id |-> data[i].id,
                                          answers |-> Reverse(data[i].answers)]])}

LoadAnswerIds == UNION {{10 * q + 1, 10 * q + 2} : q \in 1..21}

InitLoad ==
    /\ mode \in Modes
    /\ demo \in BOOLEAN
    /\ currentView = "exam"
    /\ currentExamId = ""
    /\ questions = <<>>
    /\ currentQuestionIndex = 0
    /\ selectedAnswers = <<>>
    /\ timeLeft = IF mode = "mock_test" THEN CountdownSeconds ELSE 0
    /\ examId = ""
    /\ loading = TRUE
    /\ showExplanation = FALSE
    /\ fetchPc = "pending"
    /\ createPc = "pending"
    /\ timer = [active |-> (mode = "mock_test" /\ CountdownSeconds > 0), c |-> InitialClosure]
    /\ tasks = EmptyBag
    /\ exams = <<>>
    /\ exam_responses = EmptyBag
    /\ scored = <<>>
    /\ finalized = <<>>
    /\ completed = <<>>
    /\ toasts = {}
    /\ clicks = MaxClicks - 3
    /\ EditorIdle

\* fetchQuestions over a pool of n questions: the mock data sliced, or the
\* limited query returning (or failing)
FetchQuestionsOfPool(n) ==
    /\ fetchPc = "pending"
    /\ fetchPc' = "done"
    /\ loading' = FALSE
    /\ \/ /\ questions' \in SampleShuffledQuestions(Limited(mode, ScoreBank(n)))
          /\ UNCHANGED toasts
       \/ /\ ~demo
          /\ toasts' = toasts \cup {"Failed to load questions"}
          /\ UNCHANGED questions
    /\ IF demo
       THEN examId' = "mock-exam" /\ createPc' = "done"
       ELSE UNCHANGED <<examId, createPc>>
    /\ UNCHANGED clicks
    /\ UNCHANGED editorVars
    /\ UNCHANGED <<mode, demo, currentView, currentExamId, currentQuestionIndex,
                   selectedAnswers, timeLeft, showExplanation, timer,
                   tasks, exams, exam_responses, scored, finalized, completed>>

\* the mount effect is over
MountEffectDone == ~demo \/ fetchPc = "done"

NextLoad ==
    \/ \E n \in PoolSizes : FetchQuestionsOfPool(n)
    \/ MountEffectDone /\ \E answerId \in LoadAnswerIds : HandleAnswerSelect(answerId)
    \/ MountEffectDone /\ HandleNextQuestion
    \/ MountEffectDone /\ HandlePreviousQuestion
    \/ MountEffectDone /\ OnExit
    \/ MountEffectDone /\ Tick
    \/ MountEffectDone /\ CreateExamSessionReturns
    \/ \E t \in BagToSet(tasks), ok \in BOOLEAN : NextSaveReturns(t, ok)
    \/ \E t \in BagToSet(tasks), ok \in BOOLEAN : SubmitSaveReturns(t, ok)
    \/ \E t \in BagToSet(tasks), ok \in BOOLEAN : FinalizeReturns(t, ok)

SpecLoad == InitLoad /\ [][NextLoad]_vars

(***************************************************************************)
(* The question editor: one opening of QuestionModal, to add a question or *)
(* to edit the stored one.  No exam is running.                            *)
(***************************************************************************)
examVars == <<mode, demo, currentView, currentExamId, questions, currentQuestionIndex,
              selectedAnswers, timeLeft, examId, loading, showExplanation, fetchPc,
              createPc, timer, tasks, exams, exam_responses, scored, finalized,
              completed, clicks>>

\* (showAddQuestion || editingQuestion) && <QuestionModal .../>
ModalOpen == showAddQuestion \/ editingQuestion # Null

\* prop questionId of QuestionModal
QuestionId == editingQuestion

InitEditor ==
    /\ mode = "practice"
    /\ demo = FALSE
    /\ currentView = "dashboard"
    /\ currentExamId = ""
    /\ questions = <<>>
    /\ currentQuestionIndex = 0
    /\ selectedAnswers = <<>>
    /\ timeLeft = 0
    /\ examId = ""
    /\ loading = TRUE
    /\ showExplanation = FALSE
    /\ fetchPc = "done"
    /\ createPc = "done"
    /\ timer = NoTimer
    /\ tasks = EmptyBag
    /\ exams = <<>>
    /\ exam_responses = EmptyBag
    /\ scored = <<>>
    /\ finalized = <<>>
    /\ completed = <<>>
    /\ toasts = {}
    /\ clicks = 0
    /\ \/ showAddQuestion = TRUE /\ editingQuestion = Null /\ fetchQuestionPc = "none"
       \/ showAddQuestion = FALSE /\ editingQuestion = ExistingId /\ fetchQuestionPc = "pending"
    /\ formData = BlankForm
    /\ modalLoading = FALSE
    /\ saveTask = NoSave
    /\ dbQuestion = ExistingQuestion
    /\ dbAnswers = ExistingAnswers
    /\ formBlank = TRUE
    /\ dbFromBlank = FALSE

\* fetchQuestion of QuestionModal returns: the form takes the stored question
\* and its first four answers
FetchQuestionReturns(ok) ==
    /\ fetchQuestionPc = "pending"
    /\ fetchQuestionPc' = "done"
    /\ IF ok
       THEN /\ formData' = IF ModalOpen
                           THEN [question_text |-> dbQuestion.question_text,
                                 answers |-> SubSeq(dbAnswers, 1,
                                                    IF Len(dbAnswers) < 4 THEN Len(dbAnswers)
                                                    ELSE 4)]
                           ELSE formData
            /\ formBlank' = IF ModalOpen THEN FALSE ELSE formBlank
            /\ UNCHANGED toasts
       ELSE /\ toasts' = toasts \cup {"Failed to load question"}
            /\ UNCHANGED <<formData, formBlank>>
    /\ UNCHANGED <<showAddQuestion, editingQuestion, modalLoading, saveTask, dbQuestion,
                   dbAnswers, dbFromBlank>>
    /\ UNCHANGED examVars

\* An edit of the form made while a save awaits the backend does not reach
\* that save (handleSave goes on with the formData of its closure) and the
\* save's steps do not read the form: the two commute, and the edits are taken
\* before the save is started or after it has ended.
FormEditable == ModalOpen /\ saveTask.pc = "idle"

\* the onChange of the question textarea
SetQuestionText(value) ==
    /\ FormEditable
    /\ formData' = [formData EXCEPT !.question_text = value]
    /\ UNCHANGED <<showAddQuestion, editingQuestion, modalLoading, fetchQuestionPc,
                   saveTask, dbQuestion, dbAnswers, formBlank, dbFromBlank, toasts>>
    /\ UNCHANGED examVars

\* updateAnswer(index, field, value)
UpdateAnswer(index, field, value) ==
    /\ FormEditable
    /\ index \in DOMAIN formData.answers
    /\ \/ field = "answer_text" /\ value \in Texts
       \/ field = "is_correct" /\ value \in BOOLEAN
    /\ formData' =
         [formData EXCEPT !.answers =
            [i \in DOMAIN formData.answers |->
               IF i = index
               THEN IF field = "answer_text"
                    THEN [formData.answers[i] EXCEPT !.answer_text = value]
                    ELSE [formData.answers[i] EXCEPT !.is_correct = value]
               ELSE IF field = "is_correct" /\ value = TRUE
                    THEN [formData.answers[i] EXCEPT !.is_correct = FALSE]
                    ELSE formData.answers[i]]]
    /\ UNCHANGED <<showAddQuestion, editingQuestion, modalLoading, fetchQuestionPc,
                   saveTask, dbQuestion, dbAnswers, formBlank, dbFromBlank, toasts>>
    /\ UNCHANGED examVars

\* the three validations of handleSave, in their order: the toast of the first
\* that fails, or none
ValidationError(f) ==
    IF Trim(f.question_text) = "" THEN {"Question text is required"}
    ELSE IF \E i \in DOMAIN f.answers : Trim(f.answers[i].answer_text) = ""
    THEN {"All answer options are required"}
    ELSE IF ~\E i \in DOMAIN f.answers : f.answers[i].is_correct
    THEN {"At least one correct answer is required"}
    ELSE {}

(***************************************************************************)
(* handleSave, from the Save button (disabled while a save is running), up *)
(* to its first backend call.  For an existing question that is the update *)
(* of the questions row.  For a new question the argument of the insert    *)
(* reads `user?.id`, and no `user` is declared in the module: evaluating   *)
(* it throws a ReferenceError before the insert is called, and the catch   *)
(* shows 'Failed to save question'.                                        *)
(***************************************************************************)
HandleSave ==
    /\ ModalOpen
    /\ ~modalLoading
    /\ IF ValidationError(formData) # {}
       THEN /\ toasts' = toasts \cup ValidationError(formData)
            /\ UNCHANGED <<modalLoading, saveTask>>
       ELSE IF QuestionId = Null
       THEN /\ toasts' = toasts \cup {"Failed to save question"}
            /\ UNCHANGED <<modalLoading, saveTask>>
       ELSE /\ modalLoading' = TRUE
            /\ saveTask' = [pc |-> "update", formData |-> formData,
                            before |-> dbAnswers, fromBlank |-> formBlank]
            /\ UNCHANGED toasts
    /\ UNCHANGED <<showAddQuestion, editingQuestion, formData, fetchQuestionPc,
                   dbQuestion, dbAnswers, formBlank, dbFromBlank>>
    /\ UNCHANGED examVars

\* catch and finally of handleSave
SaveFails ==
    /\ toasts' = toasts \cup {"Failed to save question"}
    /\ modalLoading' = FALSE
    /\ saveTask' = NoSave
    /\ UNCHANGED <<showAddQuestion, editingQuestion>>

\* the update of the questions row returns; on success the delete of the old
\* answers is issued
UpdateQuestionReturns(ok) ==
    /\ saveTask.pc = "update"
    /\ IF ok
       THEN /\ dbQuestion' = [question_text |-> saveTask.formData.question_text]
            /\ dbFromBlank' = saveTask.fromBlank
            /\ saveTask' = [saveTask EXCEPT !.pc = "delete"]
            /\ UNCHANGED <<toasts, modalLoading, showAddQuestion, editingQuestion>>
       ELSE /\ SaveFails
            /\ UNCHANGED <<dbQuestion, dbFromBlank>>
    /\ UNCHANGED <<formData, fetchQuestionPc, dbAnswers, formBlank>>
    /\ UNCHANGED examVars

\* the delete of the old answers returns; its result is not looked at, and
\* the insert of the new answers is issued
DeleteAnswersReturns(ok) ==
    /\ saveTask.pc = "delete"
    /\ dbAnswers' = IF ok THEN <<>> ELSE dbAnswers
    /\ saveTask' = [saveTask EXCEPT !.pc = "insert"]
    /\ UNCHANGED <<showAddQuestion, editingQuestion, formData, modalLoading,
                   fetchQuestionPc, dbQuestion, formBlank, dbFromBlank, toasts>>
    /\ UNCHANGED examVars

\* the insert of the new answers returns; on success the toast and onSave,
\* which closes the modal
InsertAnswersReturns(ok) ==
    /\ saveTask.pc = "insert"
    /\ IF ok
       THEN /\ dbAnswers' = dbAnswers \o saveTask.formData.answers
            /\ toasts' = toasts \cup {"Question updated successfully"}
            /\ showAddQuestion' = FALSE
            /\ editingQuestion' = Null
            /\ modalLoading' = FALSE
            /\ saveTask' = NoSave
       ELSE /\ SaveFails
            /\ UNCHANGED dbAnswers
    /\ UNCHANGED <<formData, fetchQuestionPc, dbQuestion, formBlank, dbFromBlank>>
    /\ UNCHANGED examVars

\* the Cancel button: onClose
OnClose ==
    /\ ModalOpen
    /\ showAddQuestion' = FALSE
    /\ editingQuestion' = Null
    /\ UNCHANGED <<formData, modalLoading, fetchQuestionPc, saveTask, dbQuestion,
                   dbAnswers, formBlank, dbFromBlank, toasts>>
    /\ UNCHANGED examVars

NextEditor ==
    \/ \E ok \in BOOLEAN : FetchQuestionReturns(ok)
    \/ \E value \in Texts : SetQuestionText(value)
    \/ \E index \in 1..4, value \in Texts : UpdateAnswer(index, "answer_text", value)
    \/ \E index \in 1..4, value \in BOOLEAN : UpdateAnswer(index, "is_correct", value)
    \/ HandleSave
    \/ \E ok \in BOOLEAN : UpdateQuestionReturns(ok)
    \/ \E ok \in BOOLEAN : DeleteAnswersReturns(ok)
    \/ \E ok \in BOOLEAN : InsertAnswersReturns(ok)
    \/ OnClose

SpecEditor == InitEditor /\ [][NextEditor]_vars

(***************************************************************************)
(* Claims.                                                                 *)
(***************************************************************************)
Origins(seq) == {seq[i].origin : i \in DOMAIN seq}

\* C1: in a mock-test session the submit side effects (score computation,
\* exams update, onExamComplete) are not performed both by the submit the
\* timer started and by the submit a manual finish started.
C1_SubmitOnce ==
    mode = "mock_test" =>
        /\ ~({"timer", "manual"} \subseteq Origins(scored))
        /\ ~({"timer", "manual"} \subseteq Origins(finalized))
        /\ ~({"timer", "manual"} \subseteq Origins(completed))

\* C5: with a non-empty question sequence the pointer stays within
\* 0 .. length - 1.
C5_PointerInRange ==
    questions # <<>> =>
        (0 <= currentQuestionIndex /\ currentQuestionIndex <= Len(questions) - 1)

\* C8: every score is computed from the chosen-answer map as it stood when
\* its submit started.
C8_ScoreFromCurrentMap ==
    \A i \in DOMAIN scored : scored[i].c.selectedAnswers = scored[i].live

\* C9: in practice and mock_test sessions no (session, question) pair has two
\* exam_responses rows.
C9_OneResponsePerQuestion ==
    mode # "learning" =>
        \A r1, r2 \in BagToSet(exam_responses) :
            /\ CopiesIn(r1, exam_responses) = 1
            /\ (r1.exam_id = r2.exam_id /\ r1.question_id = r2.question_id) => r1 = r2

\* the number of questions whose chosen answer is a flagged answer of the question
RightlyAnswered(c) ==
    Cardinality({i \in DOMAIN c.questions :
                   /\ c.questions[i].id \in DOMAIN c.selectedAnswers
                   /\ \E j \in DOMAIN c.questions[i].answers :
                         /\ c.questions[i].answers[j].is_correct
                         /\ c.questions[i].answers[j].id =
                                c.selectedAnswers[c.questions[i].id]})

\* C2: the score of a session of n >= 1 questions is 100 * correctCount / n
\* rounded to a nearest integer, n being the length of the sequence, and lies
\* in 0 .. 100.
C2_ScoreIsRoundedPercent ==
    \A i \in DOMAIN scored :
        LET n == Len(scored[i].c.questions)
            k == RightlyAnswered(scored[i].c)
            d == 2 * n * scored[i].score - 200 * k
        IN  n >= 1 => /\ 0 <= scored[i].score /\ scored[i].score <= 100
                      /\ -n <= d /\ d <= n

\* C2 witness: a 20-question mock test submitted by the timer with 12 questions
\* answered, 9 of them rightly: score 45.
C2_Witness ==
    \E i \in DOMAIN scored :
        /\ scored[i].origin = "timer"
        /\ Len(scored[i].c.questions) = 20
        /\ Cardinality(DOMAIN scored[i].c.selectedAnswers) = 12
        /\ RightlyAnswered(scored[i].c) = 9
        /\ scored[i].score = 45

\* C3: the pass flag of every score computed, of every exams update issued and
\* of every finalized exams row is (score >= 70).
C3_PassedIffSeventy ==
    /\ \A i \in DOMAIN scored : scored[i].passed = (scored[i].score >= 70)
    /\ \A i \in DOMAIN finalized : finalized[i].passed = (finalized[i].score >= 70)
    /\ \A id \in DOMAIN exams : exams[id].ended => exams[id].passed = (exams[id].score >= 70)

\* C3 witness: a session finalized with score exactly 70, passed.
C3_Witness ==
    \E id \in DOMAIN exams : exams[id].ended /\ exams[id].score = 70 /\ exams[id].passed

\* a session scoring exactly 69, failed (the other side of the boundary)
C3_SixtyNineFails ==
    \E i \in DOMAIN scored : scored[i].score = 69 /\ ~scored[i].passed

\* C4: a mock test that has its questions on display with the full countdown
\* left eventually is Completed (onExamComplete is called), unless the learner
\* leaves it: the countdown reaches 0 and the submit it starts completes.
C4_ExpiryCompletes ==
    [](( /\ mode = "mock_test"
         /\ Rendered
         /\ questions # <<>>
         /\ timeLeft = CountdownSeconds)
       => <>(completed # <<>> \/ currentView = "dashboard"))

\* C6: a selectAnswer(a) step on the current question q leaves the map with
\* the entry q -> a, every other entry as it was, and the pointer and the
\* timer unchanged.
C6_SelectFrame ==
    [][\A a \in AnswerIds :
          HandleAnswerSelect(a) =>
              LET q == CurrentQuestion(Closure).id
              IN  /\ DOMAIN selectedAnswers' = DOMAIN selectedAnswers \cup {q}
                  /\ selectedAnswers'[q] = a
                  /\ \A k \in DOMAIN selectedAnswers \ {q} :
                         selectedAnswers'[k] = selectedAnswers[k]
                  /\ currentQuestionIndex' = currentQuestionIndex
                  /\ timeLeft' = timeLeft]_vars

\* C6 witness: the current question has a chosen answer and so has another
\* question, whose entry was kept.
C6_Witness ==
    /\ HasSelected(Closure)
    /\ Cardinality(DOMAIN selectedAnswers) = 2
    /\ Mounted

\* C7: a retreat step moves the pointer back by one when it is above 0 and
\* leaves it at 0 otherwise; the chosen-answer map is unchanged and no
\* response record is issued or stored.
C7_RetreatFrame ==
    [][HandlePreviousQuestion =>
          /\ currentQuestionIndex' =
                 IF currentQuestionIndex > 0 THEN currentQuestionIndex - 1 ELSE 0
          /\ selectedAnswers' = selectedAnswers
          /\ exam_responses' = exam_responses
          /\ tasks' = tasks]_vars

\* C7 witness: the pointer is back at the first question while the question
\* at the second position has a chosen answer.
C7_Witness ==
    /\ Len(questions) = 2
    /\ currentQuestionIndex = 0
    /\ questions[2].id \in DOMAIN selectedAnswers
    /\ selectedAnswers # <<>>

\* the answer is a flagged answer of the question
IsFlagged(q, answerId) ==
    \E j \in DOMAIN q.answers : q.answers[j].is_correct /\ q.answers[j].id = answerId

\* what an advance step does in practice and mock_test modes according to C10:
\* with a chosen answer it issues the insert of a record carrying the current
\* question, the chosen answer and its correctness, and neither moves the
\* pointer nor starts the submit in that step; without one it issues nothing
AdvancePersistsFirst ==
    LET c == Closure
    IN  IF HasSelected(c)
        THEN /\ \E t \in BagToSet(tasks') :
                   /\ CopiesIn(t, tasks') = CopiesIn(t, tasks) + 1
                   /\ t.pc = "next_save"
                   /\ ResponseRow(t.c).question_id = CurrentQuestion(c).id
                   /\ ResponseRow(t.c).chosen_answer_id = SelectedAnswerId(c)
                   /\ ResponseRow(t.c).is_correct =
                          IsFlagged(CurrentQuestion(c), SelectedAnswerId(c))
             /\ currentQuestionIndex' = currentQuestionIndex
             /\ scored' = scored
        ELSE tasks' = tasks

\* every stored response record carries the correctness of its chosen answer
StoredRowsCorrect ==
    \A r \in BagToSet(exam_responses) :
        \E i \in DOMAIN Bank : /\ Bank[i].id = r.question_id
                               /\ r.is_correct = IsFlagged(Bank[i], r.chosen_answer_id)

\* C10 as claimed: in practice and mock_test modes every advance persists the
\* record of a chosen answer before it moves the pointer or starts the submit.
C10_AdvancePersists ==
    /\ [][(HandleNextQuestion /\ mode # "learning") => AdvancePersistsFirst]_vars
    /\ []StoredRowsCorrect

\* C10 amended: the same with a live backend configured.
C10_AdvancePersistsLive ==
    /\ [][(HandleNextQuestion /\ mode # "learning" /\ ~demo) => AdvancePersistsFirst]_vars
    /\ []StoredRowsCorrect

\* C10 witness: the insert of an advance is awaited, the pointer still on the
\* question of the record, and a record flagged incorrect is stored.
C10_Witness ==
    /\ \E t \in BagToSet(tasks) :
          t.pc = "next_save" /\ t.c.currentQuestionIndex = currentQuestionIndex
    /\ \E r \in BagToSet(exam_responses) : ~r.is_correct

\* the pcs of the invocations that await an insert into exam_responses
SavePcs == {"next_save", "submit_save"}

\* C11: in learning mode no response record is stored and no insert of one is
\* issued (none is awaited), whatever the learner does.
C11_LearningPersistsNothing ==
    mode = "learning" =>
        /\ exam_responses = EmptyBag
        /\ \A t \in BagToSet(tasks) : t.pc \notin SavePcs

\* C11 witness: a learning session on a live backend, finished with both
\* questions answered, and nothing stored.
C11_Witness ==
    /\ mode = "learning"
    /\ ~demo
    /\ NewExamId \in DOMAIN exams
    /\ Cardinality(DOMAIN selectedAnswers) = 2
    /\ completed # <<>>
    /\ exam_responses = EmptyBag

\* C12: a submit of a session whose question sequence is empty computes
\* score 0, not passed, and no submit of a session loaded with an empty
\* sequence is aborted ('Failed to submit exam').
C12_EmptySessionScoresZero ==
    /\ [](\A i \in DOMAIN scored :
             scored[i].c.questions = <<>> => (scored[i].score = 0 /\ ~scored[i].passed))
    /\ [][(questions = <<>> /\ fetchPc = "done") =>
              ("Failed to submit exam" \in toasts' =>
                   "Failed to submit exam" \in toasts)]_vars

\* the questions of the sequence none of whose answers is flagged
Unflagged(qs) == {i \in DOMAIN qs : \A j \in DOMAIN qs[i].answers : ~qs[i].answers[j].is_correct}

\* the answered questions that have a flagged answer and whose chosen answer is
\* a flagged one
RightlyAnsweredFlagged(c) ==
    Cardinality({i \in DOMAIN c.questions \ Unflagged(c.questions) :
                   /\ c.questions[i].id \in DOMAIN c.selectedAnswers
                   /\ IsFlagged(c.questions[i], c.selectedAnswers[c.questions[i].id])})

\* a submit is aborted in this step
SubmitAborted == "Failed to submit exam" \in toasts' /\ "Failed to submit exam" \notin toasts

\* C13: every score is the rounded percentage of the rightly answered questions
\* among those that have a flagged answer, so a question without a flagged
\* answer (or without answers) counts as incorrect whatever is chosen for it;
\* and a submit is aborted only when the pointer of a closure in use is outside
\* the sequence, never because of an unflagged question.
C13_UnflaggedNeverCorrect ==
    /\ [](\A i \in DOMAIN scored :
             LET n == Len(scored[i].c.questions)
                 d == 2 * n * scored[i].score - 200 * RightlyAnsweredFlagged(scored[i].c)
             IN  -n <= d /\ d <= n)
    /\ [][SubmitAborted =>
             \/ ~HasCurrent(timer.c)
             \/ \E t \in BagToSet(tasks) : ~HasCurrent(t.c)]_vars

\* C13 witness: a score of 33 out of three questions, computed with an answer
\* chosen both for the flagged question (rightly) and for the unflagged one.
C13_Witness ==
    \E i \in DOMAIN scored :
        /\ scored[i].score = 33
        /\ {1, 2} \subseteq DOMAIN scored[i].c.selectedAnswers
        /\ scored[i].c.selectedAnswers[1] = 11

\* C14: once createExamSession has failed ('Failed to start exam') the session
\* is not usable: no answer is selected, no insert or update is issued, no
\* score is computed and onExamComplete is not called.
C14_FailedStartNotUsable ==
    []["Failed to start exam" \in toasts =>
          /\ selectedAnswers' = selectedAnswers
          /\ \A t \in BagToSet(tasks') : CopiesIn(t, tasks') <= CopiesIn(t, tasks)
          /\ scored' = scored
          /\ finalized' = finalized
          /\ completed' = completed]_vars

\* C15: when onExamComplete has been called for a session whose exams update
\* failed (the row is still not ended), the failure has been shown to the user.
C15_FinalizeFailureSurfaced ==
    \A i \in DOMAIN completed :
        (completed[i].id \in DOMAIN exams /\ ~exams[completed[i].id].ended)
            => "Failed to submit exam" \in toasts

\* C16: when the insert awaited by an advance fails, the advance goes on as
\* after a success: the map is unchanged, nothing is stored, the insert is not
\* issued again, and the pointer moves forward by one or, at the last
\* question, the submit starts (its saveResponse is issued).
C16_FailedRecordDoesNotBlock ==
    [][\A t \in BagToSet(tasks) :
          NextSaveReturns(t, FALSE) =>
              /\ selectedAnswers' = selectedAnswers
              /\ exam_responses' = exam_responses
              /\ \A u \in BagToSet(tasks') :
                     u.pc = "next_save" => CopiesIn(u, tasks') <= CopiesIn(u, tasks)
              /\ IF t.c.currentQuestionIndex < Len(t.c.questions) - 1
                 THEN Mounted => currentQuestionIndex' = currentQuestionIndex + 1
                 ELSE \E u \in BagToSet(tasks') :
                          /\ u.pc = "submit_save"
                          /\ u.c = t.c
                          /\ CopiesIn(u, tasks') = CopiesIn(u, tasks) + 1]_vars

\* C16 witness: a practice session on a live backend with its exams row has
\* moved on to the second question, the first one answered, no call in flight
\* and no record stored: the insert of the advance failed.
C16_Witness ==
    /\ mode = "practice"
    /\ ~demo
    /\ Mounted
    /\ examId \in DOMAIN exams
    /\ Len(questions) = 2
    /\ currentQuestionIndex = 1
    /\ questions[1].id \in DOMAIN selectedAnswers
    /\ tasks = EmptyBag
    /\ exam_responses = EmptyBag

\* C17: once the load of the questions has failed ('Failed to load questions')
\* no answer is selected, the pointer does not move and no submit takes place
\* (no score is computed, none is aborted, onExamComplete is not called).
C17_FailedLoadCannotStart ==
    []["Failed to load questions" \in toasts =>
          /\ selectedAnswers' = selectedAnswers
          /\ currentQuestionIndex' = currentQuestionIndex
          /\ scored' = scored
          /\ completed' = completed
          /\ ~SubmitAborted]_vars

\* a submit has started: it awaits a backend call or has computed its score
SubmitStarted ==
    \/ scored # <<>>
    \/ \E t \in BagToSet(tasks) : t.pc \in {"submit_save", "submit_update"}

\* C19: once a submit has started no answer is selected and the pointer does
\* not move, and onExamComplete is called only by a submit that has started.
C19_PhasesOnlyForward ==
    /\ [][SubmitStarted => /\ selectedAnswers' = selectedAnswers
                           /\ currentQuestionIndex' = currentQuestionIndex]_vars
    /\ [][completed' # completed => (SubmitStarted \/ scored' # scored)]_vars

\* C20: at the step in which a mock test leaves Loading (loading becomes false)
\* timeLeft still is the full countdown.
C20_NoCountdownWhileLoading ==
    [][(mode = "mock_test" /\ loading /\ ~loading') => timeLeft' = CountdownSeconds]_vars

C21_AdvanceDoesNotWait ==
    [][HandleNextQuestion =>
          IF currentQuestionIndex < Len(questions) - 1
          THEN currentQuestionIndex' = currentQuestionIndex + 1
          ELSE \/ scored' # scored
               \/ SubmitAborted
               \/ \E t \in BagToSet(tasks') :
                      /\ t.pc \in {"submit_save", "submit_update"}
                      /\ CopiesIn(t, tasks') = CopiesIn(t, tasks) + 1]_vars

\* C22: the explanation flag is set only in learning mode and only while the
\* current question has a chosen answer; a selection leaves it set in learning
\* mode and unset in the other modes; every step that moves the pointer
\* leaves it unset.
C22_ExplanationFlag ==
    /\ [](showExplanation => (mode = "learning" /\ HasSelected(Closure)))
    /\ [][\A a \in AnswerIds :
             HandleAnswerSelect(a) => (showExplanation' = (mode = "learning"))]_vars
    /\ [][currentQuestionIndex' # currentQuestionIndex => ~showExplanation']_vars

\* C22 witness: a learning session at its second question, reached by an
\* advance from the explained first question, the explanation shown again.
C22_Witness ==
    /\ mode = "learning"
    /\ currentQuestionIndex = 1
    /\ Cardinality(DOMAIN selectedAnswers) = 2
    /\ showExplanation

\* the options of the form, or the stored answers, that are flagged correct
Flagged(answers) == {i \in DOMAIN answers : answers[i].is_correct}

\* C23: a form that comes from the blank form by edits has at most one option
\* flagged; handleSave issues a write only for a form whose question text and
\* answer texts are non-empty and that has a flagged option; and once a save
\* of such a form has written and ended, the stored question has exactly one
\* flagged answer.
C23_EditorSingleCorrect ==
    /\ [](formBlank => Cardinality(Flagged(formData.answers)) <= 1)
    /\ [][(HandleSave /\ saveTask'.pc # "idle") =>
             /\ formData.question_text \notin {"", " "}
             /\ \A i \in DOMAIN formData.answers :
                    formData.answers[i].answer_text \notin {"", " "}
             /\ Flagged(formData.answers) # {}]_vars
    /\ []((dbFromBlank /\ saveTask.pc = "idle") =>
              Cardinality(Flagged(dbAnswers)) = 1)

\* C30: when a save of the stored question fails at its update, at its delete
\* (the insert then adds to answers that are still there) or at its insert,
\* the stored answers are those from before the save; and the stored question
\* has no answers only while the insert of a save is awaited.
C30_FailedSaveKeepsAnswers ==
    /\ [][(\/ UpdateQuestionReturns(FALSE)
           \/ InsertAnswersReturns(FALSE)
           \/ (InsertAnswersReturns(TRUE) /\ dbAnswers # <<>>))
             => dbAnswers' = saveTask.before]_vars
    /\ [](dbAnswers = <<>> => saveTask.pc = "insert")

\* the questions of closure c that have an entry in its chosen-answer map
AllAnswered(c) == \A i \in DOMAIN c.questions : c.questions[i].id \in DOMAIN c.selectedAnswers

\* C24: in practice and mock_test a click on Next/Finish finds the current
\* question answered; every question before the pointer has an entry in the
\* chosen-answer map; and a score of a manual finish is computed from a map
\* with an entry for every question.
C24_AnsweredBeforePointer ==
    /\ [][(HandleNextQuestion /\ mode # "learning") => HasSelected(Closure)]_vars
    /\ [](mode # "learning" =>
            \A i \in DOMAIN questions :
                i <= currentQuestionIndex => questions[i].id \in DOMAIN selectedAnswers)
    /\ [](mode # "learning" =>
            \A i \in DOMAIN scored :
                scored[i].origin = "manual" => AllAnswered(scored[i].c))

\* the (question, chosen answer) pairs of the stored responses of exam id
StoredPairs(id) ==
    {<<r.question_id, r.chosen_answer_id>> :
        r \in {x \in BagToSet(exam_responses) : x.exam_id = id}}

\* the (question, chosen answer) pairs of the chosen-answer map of closure c
MapPairs(c) == {<<q, c.selectedAnswers[q]>> : q \in DOMAIN c.selectedAnswers}

\* responses.filter(r => r.is_correct).length over the stored rows of exam id
StoredCorrectCount(id) ==
    LET S == {r \in BagToSet(exam_responses) : r.exam_id = id /\ r.is_correct}
    IN  BagCardinality([r \in S |-> CopiesIn(r, exam_responses)])

\* C25: when a practice or mock_test submit against the live backend completes, the stored
\* (question, chosen answer) pairs of its exam are the pairs of the map its
\* score was computed from, and the number of stored rows marked correct is
\* the correctCount of that score.
C25_StoredEqualsScored ==
    [][\A t \in BagToSet(tasks) :
          (mode # "learning" /\ (FinalizeReturns(t, TRUE) \/ FinalizeReturns(t, FALSE))) =>
              /\ StoredPairs(t.c.examId) = MapPairs(t.c)
              /\ StoredCorrectCount(t.c.examId) = CorrectCount(t.c)]_vars

\* the backend requests in flight that carry an exam id
CarriesExamId(t) == t.pc \in {"next_save", "submit_save", "submit_update"}

\* C26: every exam_responses insert and every exams update that is issued
\* carries the id that createExamSession got back, never the empty id.
C26_RequestsCarrySessionId ==
    /\ \A t \in BagToSet(tasks) : CarriesExamId(t) => t.c.examId = NewExamId
    /\ \A i \in DOMAIN finalized : finalized[i].id = NewExamId

\* C27: after Exit (the view is the dashboard) the session calls
\* onExamComplete no more and the view stays the dashboard.
C27_ExitIsFinal ==
    [][currentView = "dashboard" =>
          (completed' = completed /\ currentView' = "dashboard")]_vars

\* C28: once the questions are loaded and the exams row of the session is
\* stored, its total_questions is the length of the loaded sequence.
C28_TotalIsLoadedLength ==
    (NewExamId \in DOMAIN exams /\ fetchPc = "done" /\ questions # <<>>) =>
        exams[NewExamId].total_questions = Len(questions)

\* C29: every score that is computed is the score of the same chosen-answer
\* map over every other order of the questions and of their answers.
C29_ScoreIgnoresOrder ==
    \A i \in DOMAIN scored :
        \A qs \in ShuffledQuestions(TwoFlaggedBank) :
            Score([scored[i].c EXCEPT !.questions = qs]) = scored[i].score

====
